---- MODULE Spec2Model ----
(***************************************************************************)
(* Serial WS2812 firmware: the USB protocol task (core 0), the LED task    *)
(* (core 1) and the two single-slot channels that rotate the frame buffer  *)
(* between them.                                                           *)
(***************************************************************************)
EXTENDS Integers, Sequences, FiniteSets, TLC

VARIABLES
    ppc,              \* protocol task: the await it is suspended at
    inbuf,            \* read_serial: buf[..idx]
    command,          \* read_serial: command (Option<Command>)
    cfg,              \* read_serial: cfg
    pleds,            \* read_serial: the `leds` binding (0 or 1 buffer reference)
    out,              \* replies written by the last iteration of the read_serial loop
    DISPLAY_CHANNEL,  \* Channel<_, DisplayCommand, 1>
    RETURN_CHANNEL,   \* Channel<_, &'static mut LEDs, 1>
    DISPLAY_BUFFER,   \* contents of the frame buffer (non-zero pixels only)
    lpc,              \* LED task: position in its loop
    frame,            \* parallel_led_task: the (num_leds, leds) binding (0 or 1 message)
    host,             \* the host side of the serial link
    wpc,              \* LED task: position inside the gap wait and write_data_direct
    li,               \* write_data_direct: i of the for loop
    written_bytes,    \* write_data_direct: written_bytes
    out_buf,          \* parallel_led_task: out_buf, up to the last byte written so far
    pushed,           \* the words pushed to the TX FIFO for the current frame
    elapsed,          \* microseconds from last_write to the LED task's latest clock reading
    timer,            \* microseconds asked of Timer::after for the reset gap
    tsrc,             \* transposer: the array compress_byte was first given
    tb,               \* transposer: the array after tn applications
    tn                \* transposer: number of applications of compress_byte

\* the locals of the LED task's gap wait and of write_data_direct
wvars == <<wpc, li, written_bytes, out_buf, pushed, elapsed, timer>>

\* the transposer on its own
tvars == <<tsrc, tb, tn>>

vars == <<ppc, inbuf, command, cfg, pleds, out, DISPLAY_CHANNEL, RETURN_CHANNEL,
          DISPLAY_BUFFER, lpc, frame, host, wvars, tvars>>

-----------------------------------------------------------------------------
(* shared/src/lib.rs                                                       *)

MESSAGE_TYPE_LEN == 8
MESSAGE_NUM_LEN == 4
MAX_STRIPS == 8
MAX_LEDS_PER_STRIP == 512
BYTES_PER_LED == 3
MAX_BUFFER_SIZE == BYTES_PER_LED * MAX_LEDS_PER_STRIP * MAX_STRIPS
PACKET_LEN == 64

\* let mut buf = [0; MESSAGE_TYPE_LEN + MAX_BUFFER_SIZE + PACKET_LEN as usize];
BufLen == MESSAGE_TYPE_LEN + MAX_BUFFER_SIZE + PACKET_LEN

\* b"update\0\0"
UPDATE_MESSAGE == <<117, 112, 100, 97, 116, 101, 0, 0>>
\* b"strips\0\0"
SET_STRIPS_MESSAGE == <<115, 116, 114, 105, 112, 115, 0, 0>>
\* b"leds\0\0\0\0"
SET_LEDS_MESSAGE == <<108, 101, 100, 115, 0, 0, 0, 0>>

\* 0x1209, 0xF0F0
DEVICE_VENDOR_ID == 4617
DEVICE_PRODUCT_ID == 61680
DEVICE_PRODUCT_NAME == "Serial WS2812"

DEVICE_MESSAGE_TYPE_LEN == 1
DEVICE_INIT_MESSAGE == "i"
DEVICE_ERROR_MESSAGE == "e"
DEVICE_PARTIAL_MESSAGE == "p"
DEVICE_OK_MESSAGE == "k"

\* the only frame buffer (the StaticCell DISPLAY_BUFFER); channels carry this reference
BufRef == "DISPLAY_BUFFER"

\* Config { strips: 3, leds: 512 }
DefaultStrips == 3
DefaultLeds == 512
DefaultCfg == [strips |-> DefaultStrips, leds |-> DefaultLeds]

-----------------------------------------------------------------------------
(* Bounds of the exploration                                               *)

\* the free host never lets more than MaxIdx bytes accumulate in the input buffer
MaxIdx == 12

\* the most bytes read_serial is followed to hold while the host resynchronises
MaxHeld == 48

-----------------------------------------------------------------------------
(* Byte helpers                                                            *)

\* u32::to_le_bytes
to_le_bytes(n) ==
    <<n % 256, (n \div 256) % 256, (n \div 65536) % 256, (n \div 16777216) % 256>>

\* usize::from_le_bytes on the 32-bit target.  The value is kept as two 16-bit
\* halves, hi * 65536 + lo, so that every u32 is representable.
from_le_bytes(b) ==
    [hi |-> b[3] + 256 * b[4], lo |-> b[1] + 256 * b[2]]

\* num > max, for a max below 65536
Exceeds(num, max) == num.hi > 0 \/ num.lo > max

\* num as a number, when it is below 65536
AsNat(num) == num.lo

\* buf[MESSAGE_TYPE_LEN .. MESSAGE_TYPE_LEN + 4] read as a number
ParseNum(b) ==
    from_le_bytes(<<b[MESSAGE_TYPE_LEN + 1], b[MESSAGE_TYPE_LEN + 2],
                    b[MESSAGE_TYPE_LEN + 3], b[MESSAGE_TYPE_LEN + 4]>>)

ZeroPx == <<0, 0, 0>>

\* leds[s][i]: the buffer is created all zero, only non-zero pixels are stored
Px(mem, s, i) == IF <<s, i>> \in DOMAIN mem THEN mem[<<s, i>>] ELSE ZeroPx

-----------------------------------------------------------------------------
(* firmware/src/serial.rs: one iteration of the read_serial loop           *)

\* variant: recv hands out the reference and leaves it in the channel
TakenPeek(ch) == ch

\* Channel::recv / receive: the channel after its message is taken
Taken(ch) == Tail(ch)

\* Channel<CriticalSectionRawMutex, _, 1>
Capacity == 1

\* variant: the message is queued twice
PutTwice(ch, msg) == Append(Append(ch, msg), msg)

\* Channel::send / try_send: the channel after msg is put
Put(ch, msg) == Append(ch, msg)

\* the result of one iteration, from the return of read_packet to the next await:
\*   w        the replies passed to write_packet, in order
\*   command  the pending command, buf = buf[..idx], cfg
\*   next     the await the task suspends at next
Result(w, cmd, b, c, nxt) ==
    [w |-> w, command |-> cmd, buf |-> b, cfg |-> c, next |-> nxt]

\* variant: `<=` for `<`
TooShortOffByOne(b) == Len(b) <= MESSAGE_TYPE_LEN

\* if buf.len() < 8 { continue; }
TooShort(b) == Len(b) < MESSAGE_TYPE_LEN

\* the if / else-if chain on `incoming`; "None" stands for the final else
ParseTag(incoming) ==
    IF incoming = UPDATE_MESSAGE THEN "Update"
    ELSE IF incoming = SET_STRIPS_MESSAGE THEN "SetStrips"
    ELSE IF incoming = SET_LEDS_MESSAGE THEN "SetLeds"
    ELSE "None"

\* variant: the final else without idx = 0
InvalidCommandKeep(b, c) ==
    Result(<<DEVICE_ERROR_MESSAGE>>, "None", b, c, "read_packet")

\* the final else: write `e`, idx = 0, continue
InvalidCommand(b, c) ==
    Result(<<DEVICE_ERROR_MESSAGE>>, "None", <<>>, c, "read_packet")

\* if num > MAX_LEDS_PER_STRIP
LedsOutOfRange(num) == Exceeds(num, MAX_LEDS_PER_STRIP)

\* variant: the strips value checked against the LED limit
StripsOutOfRangeLeds(num) == Exceeds(num, MAX_LEDS_PER_STRIP)

\* if num > MAX_STRIPS
StripsOutOfRange(num) == Exceeds(num, MAX_STRIPS)

\* variant: the refused number is stored all the same
RejectedStored(b, cmd, c, w) ==
    Result(w \o <<DEVICE_ERROR_MESSAGE>>, cmd, b,
           IF cmd = "SetLeds" THEN [c EXCEPT !.leds = AsNat(ParseNum(b))]
           ELSE [c EXCEPT !.strips = AsNat(ParseNum(b))],
           "read_packet")

\* the out-of-range branch: write `e`, continue
Rejected(b, cmd, c, w) ==
    Result(w \o <<DEVICE_ERROR_MESSAGE>>, cmd, b, c, "read_packet")

\* variant: the fall-through without idx = 0
CompletedKeep(b, c, w) ==
    Result(w \o <<DEVICE_OK_MESSAGE>>, "None", b, c, "read_packet")

\* the fall-through after a match arm: command = None; idx = 0;
Completed(b, c, w) ==
    Result(w \o <<DEVICE_OK_MESSAGE>>, "None", <<>>, c, "read_packet")

\* variant: the bytes past the command's own are kept
AfterCommandKeepSurplus(b, c) ==
    SubSeq(b, MESSAGE_TYPE_LEN + BYTES_PER_LED * c.leds * c.strips + 1, Len(b))

\* buf[..idx] after the Update arm: idx = 0, whatever the packet held
AfterCommand(b, c) == <<>>

\* the guard of the SetLeds and SetStrips arms
NumReady(b) == Len(b) >= MESSAGE_TYPE_LEN + MESSAGE_NUM_LEN

\* variant: `>` for `>=`
UpdateReadyStrict(b, c) == Len(b) > MESSAGE_TYPE_LEN + BYTES_PER_LED * c.leds * c.strips

\* the guard of the Update arm
UpdateReady(b, c) == Len(b) >= MESSAGE_TYPE_LEN + BYTES_PER_LED * c.leds * c.strips

\* match command { ... }, entered with a pending command and the replies w written so far
Dispatch(b, cmd, c, w) ==
    CASE cmd = "SetLeds" /\ NumReady(b) ->
            IF LedsOutOfRange(ParseNum(b))
            THEN Rejected(b, cmd, c, w)
            ELSE Completed(b, [c EXCEPT !.leds = AsNat(ParseNum(b))], w)
      [] cmd = "SetStrips" /\ NumReady(b) ->
            IF StripsOutOfRange(ParseNum(b))
            THEN Rejected(b, cmd, c, w)
            ELSE Completed(b, [c EXCEPT !.strips = AsNat(ParseNum(b))], w)
      [] cmd = "Update" /\ UpdateReady(b, c) ->
            \* `k` is written, then the task awaits RETURN_CHANNEL.recv()
            Result(w \o <<DEVICE_OK_MESSAGE>>, cmd, b, c, "recv")
      [] OTHER ->
            Result(w, cmd, b, c, "read_packet")

\* the body of `loop`, given b = buf[..idx] after read_packet
Iteration(b, cmd, c) ==
    IF TooShort(b) THEN Result(<<>>, cmd, b, c, "read_packet")
    ELSE IF cmd = "None"
         THEN LET new_command == ParseTag(SubSeq(b, 1, MESSAGE_TYPE_LEN))
              IN  IF new_command = "None"
                  THEN InvalidCommand(b, c)
                  ELSE Dispatch(b, new_command, c, <<DEVICE_PARTIAL_MESSAGE>>)
         ELSE Dispatch(b, cmd, c, <<>>)

\* data[start_idx + 3*i .. start_idx + 3*i + 3] as one [u8; 3] (cast_slice)
Chunk(data, start_idx, i) ==
    <<data[start_idx + BYTES_PER_LED * i + 1],
      data[start_idx + BYTES_PER_LED * i + 2],
      data[start_idx + BYTES_PER_LED * i + 3]>>

\* variant: the row offset counted in LEDs, not bytes
StartIdxInLeds(i, c) == i * c.leds

\* let start_idx = i * cfg.leds * BYTES_PER_LED;
StartIdx(i, c) == i * c.leds * BYTES_PER_LED

\* the rows the loop visits: leds.iter_mut().enumerate().take(cfg.strips)
Rows(c) == {s \in 0 .. MAX_STRIPS - 1 : s < c.strips}

\* for (i, strip) in ... { strip[..cfg.leds].copy_from_slice(...) }
CopyRows(mem, data, c) ==
    LET written == Rows(c) \X (0 .. c.leds - 1)
        new(e) == IF e \in written
                  THEN Chunk(data, StartIdx(e[1], c), e[2])
                  ELSE Px(mem, e[1], e[2])
        dom == {e \in (DOMAIN mem) \cup written : new(e) # ZeroPx}
    IN  [e \in dom |-> new(e)]

-----------------------------------------------------------------------------
(* The bit transposer, firmware/src/ws2812.rs                              *)
(* A u32 is the set of the positions (0 = least significant) of its 1 bits *)

\* the 1 bits of one byte
Bits8(x) == {k \in 0 .. 7 : (x \div 2 ^ k) % 2 = 1}

\* byte j (0 = least significant) of a word
ByteOf(word, j) ==
    LET bit(k) == IF 8 * j + k \in word THEN 2 ^ k ELSE 0
    IN  bit(0) + bit(1) + bit(2) + bit(3) + bit(4) + bit(5) + bit(6) + bit(7)

\* cast_ref::<[u8; 8], [u32; 2]>(i)[h] on the little-endian target:
\* byte 4h + j of the array is byte j of word h
Word(i, h) == UNION {{8 * j + k : k \in Bits8(i[4 * h + j + 1])} : j \in 0 .. 3}

\* the two words written back over the array
Unword(lower, upper) ==
    [n \in 1 .. 8 |-> IF n <= 4 THEN ByteOf(lower, n - 1) ELSE ByteOf(upper, n - 5)]

\* word << n and word >> n on 32 bits
Shl(word, n) == {b + n : b \in {x \in word : x + n <= 31}}
Shr(word, n) == {b - n : b \in {x \in word : x >= n}}

\* 0x80808080
MsbMask == {7, 15, 23, 31}

\* u32::to_be_bytes(word)[0]
FirstBeByte(word) == ByteOf(word, 3)

\* variant: the two words merged the other way round
compress_bitSwapped(i) ==
    LET lower == Word(i, 0) \cap MsbMask
        upper == Word(i, 1) \cap MsbMask
        m0 == lower \cup Shr(upper, 4)
        m1 == m0 \cup Shl(Shr(m0, 2), 16)
        m2 == m1 \cup Shl(Shr(m1, 1), 8)
    IN  FirstBeByte(m2)

\* fn compress_bit(i: &[u8; 8]) -> u8
compress_bit(i) ==
    LET lower == Word(i, 0) \cap MsbMask
        upper == Word(i, 1) \cap MsbMask
        m0 == upper \cup Shr(lower, 4)
        m1 == m0 \cup Shl(Shr(m0, 2), 16)
        m2 == m1 \cup Shl(Shr(m1, 1), 8)
    IN  FirstBeByte(m2)

\* variant: only the lower word is shifted
shiftLowerOnly(i) == Unword(Shl(Word(i, 0), 1), Word(i, 1))

\* fn shift(i: &mut [u8; 8]): *lower <<= 1; *upper <<= 1;
shift(i) == Unword(Shl(Word(i, 0), 1), Shl(Word(i, 1), 1))

\* the loop of compress_byte over the n output bytes still to fill
RECURSIVE CompressFrom(_, _)
CompressFrom(i, n) ==
    IF n = 0 THEN <<>> ELSE <<compress_bit(i)>> \o CompressFrom(shift(i), n - 1)

\* variant: the array is not shifted between two output bytes
compress_byteNoShift(i) == [k \in 1 .. 8 |-> compress_bit(i)]

\* fn compress_byte(i: &mut [u8; 8], out: &mut [u8]), out being 8 bytes long
compress_byte(i) == CompressFrom(i, 8)

-----------------------------------------------------------------------------
(* The host side of the link                                               *)

\* numbers the free host puts in a SetStrips / SetLeds payload
Values == {0, 1, 9, 513}

NullByte == <<0>>

\* the packets the free host may write at any time
Packets ==
    {UPDATE_MESSAGE, SET_STRIPS_MESSAGE, SET_LEDS_MESSAGE}
    \cup {to_le_bytes(v) : v \in Values}
    \cup {NullByte, SubSeq(SET_LEDS_MESSAGE, 1, 4)}

\* the 18 payload bytes of the start-up scenario
ScenarioPayload ==
    <<255, 0, 0,  0, 255, 0,  0, 0, 255,  255, 0, 0,  0, 255, 0,  0, 0, 255>>

\* strips(3), leds(2), update(18 bytes): tag and payload are separate writes
ScenarioCommands ==
    <<SET_STRIPS_MESSAGE, to_le_bytes(3), SET_LEDS_MESSAGE, to_le_bytes(2),
      UPDATE_MESSAGE, ScenarioPayload>>

EightNulls == <<0, 0, 0, 0, 0, 0, 0, 0>>

\* two frames of different shapes: 2 strips x 2 LEDs, then 2 strips x 1 LED
FrameA == <<11, 12, 13,  14, 15, 16,  21, 22, 23,  24, 25, 26>>
FrameB == <<31, 32, 33,  41, 42, 43>>

TwoFrames ==
    <<SET_STRIPS_MESSAGE, to_le_bytes(2), SET_LEDS_MESSAGE, to_le_bytes(2),
      UPDATE_MESSAGE, SubSeq(FrameA, 1, 5), SubSeq(FrameA, 6, 12),
      SET_LEDS_MESSAGE, to_le_bytes(1),
      UPDATE_MESSAGE \o FrameB>>

\* one pixel on one strip
FrameC == <<51, 52, 53>>

\* a 2 x 2 frame, then a 1 x 1 frame
ShrinkingFrames ==
    <<SET_STRIPS_MESSAGE, to_le_bytes(2), SET_LEDS_MESSAGE, to_le_bytes(2),
      UPDATE_MESSAGE, FrameA,
      SET_STRIPS_MESSAGE, to_le_bytes(1), SET_LEDS_MESSAGE, to_le_bytes(1),
      UPDATE_MESSAGE, FrameC>>

\* a frame of no LED at all
EmptyFrame == <<SET_LEDS_MESSAGE, to_le_bytes(0), UPDATE_MESSAGE>>

\* the two bytes that follow the pixel in its packet, and the rest of a leds tag
Surplus == SubSeq(SET_LEDS_MESSAGE, 1, 2)
RestOfTag == SubSeq(SET_LEDS_MESSAGE, 3, 8)

\* a 1 x 1 frame whose last packet holds two bytes too many
SurplusFrame ==
    <<SET_STRIPS_MESSAGE, to_le_bytes(1), SET_LEDS_MESSAGE, to_le_bytes(1),
      UPDATE_MESSAGE, FrameC \o Surplus, RestOfTag>>

\* the scripted sessions: each element is one write, delivered as one packet
\* a packet of the largest size, and as many of them as fill buf and one more
FullPacket == [n \in 1 .. PACKET_LEN |-> 0]
Flood == [n \in 1 .. (BufLen \div PACKET_LEN) + 1 |-> FullPacket]

Script(id) ==
    CASE id = 1 -> <<NullByte>> \o ScenarioCommands
      [] id = 2 -> <<EightNulls>> \o ScenarioCommands
      [] id = 3 -> <<NullByte, NullByte, NullByte, NullByte,
                     NullByte, NullByte, NullByte, NullByte>> \o ScenarioCommands
      [] id = 4 -> TwoFrames
      [] id = 5 -> ShrinkingFrames
      [] id = 6 -> EmptyFrame
      [] id = 7 -> SurplusFrame
      [] id = 8 -> <<SET_LEDS_MESSAGE, to_le_bytes(513)>> \o Flood
      [] id = 9 -> <<SET_STRIPS_MESSAGE, to_le_bytes(9)>> \o Flood

ScriptIds == {1, 2, 3, 4}

\* sent: the frame of the host's last update that went through (0 or 1)
FreeHost == [mode |-> "free", id |-> 0, todo |-> <<>>, rx |-> <<>>, sent |-> <<>>]
ScriptHost(id) ==
    [mode |-> "script", id |-> id, todo |-> Script(id), rx |-> <<>>, sent |-> <<>>]

\* the packets the host may write next
Offered ==
    IF host.mode = "free"
    THEN {p \in Packets : Len(inbuf) + Len(p) <= MaxIdx}
    ELSE IF host.todo = <<>> THEN {}
    ELSE IF host.mode = "resync" /\ Len(inbuf) + Len(Head(host.todo)) > MaxHeld THEN {}
    ELSE {Head(host.todo)}

\* the host after writing one packet and reading the replies w to it
HostAfter(w) ==
    IF host.mode = "free" THEN host
    ELSE [host EXCEPT !.todo = Tail(@), !.rx = @ \o w]

\* a scripted host starts its session over on every new connection
HostOnConnect ==
    IF host.mode = "free" THEN host
    ELSE [ScriptHost(host.id) EXCEPT !.sent = host.sent]

\* the host's payload has been handed to the LED task under configuration c
HostHanded(c, payload) ==
    IF host.mode # "script" THEN host
    ELSE [host EXCEPT !.sent = <<[strips |-> c.strips, leds |-> c.leds, payload |-> payload]>>]

-----------------------------------------------------------------------------
(* The host's resynchronisation loop, src/lib.rs reset_to_command          *)
(* In this mode host.todo holds the writes the firmware has not read yet   *)
(* and host.rx the reply bytes the host has not read yet.                  *)

\* let mut buffer = [0u8; DEVICE_MESSAGE_TYPE_LEN * 4];
ReadBufferLen == DEVICE_MESSAGE_TYPE_LEN * 4

\* if counter < 8 { write one null byte } else { write 32 null bytes }
BurstAfter == 8
BurstLen == 32
Burst == [n \in 1 .. BurstLen |-> 0]

\* the most writes the host has outstanding; further timeouts wait
MaxInFlight == 2

\* the loop is entered: counter = 0, nothing written, nothing read
ResyncHost ==
    [mode |-> "resync", id |-> 0, todo |-> <<>>, rx |-> <<>>, sent |-> <<>>,
     counter |-> 0, done |-> FALSE]

\* counter += 1; only counter < 8 is ever asked, so 8 stands for 8 and more
Counted(n) == IF n < BurstAfter THEN n + 1 ELSE BurstAfter

\* read() times out: a null byte, or a burst from the 8th timeout on, is written
HostTimeout ==
    /\ host.mode = "resync"
    /\ ~host.done
    /\ host.rx = <<>>
    /\ Len(host.todo) < MaxInFlight
    /\ host' = [host EXCEPT !.counter = Counted(@),
                            !.todo = Append(@, IF Counted(host.counter) < BurstAfter
                                               THEN NullByte ELSE Burst)]
    /\ UNCHANGED <<ppc, inbuf, command, cfg, pleds, out, DISPLAY_CHANNEL, RETURN_CHANNEL,
                   DISPLAY_BUFFER, lpc, frame, wvars, tvars>>

\* read() returns the reply bytes that have arrived, at most the buffer's length
HostRead ==
    /\ host.mode = "resync"
    /\ ~host.done
    /\ host.rx # <<>>
    /\ LET read_bytes == IF Len(host.rx) < ReadBufferLen THEN Len(host.rx) ELSE ReadBufferLen
           rest == SubSeq(host.rx, read_bytes + 1, Len(host.rx))
       IN  host' = IF read_bytes > 1
                   THEN [host EXCEPT !.rx = rest, !.counter = 0]
                   ELSE [host EXCEPT !.rx = rest,
                                     !.done = host.rx[1] \in {DEVICE_INIT_MESSAGE,
                                                               DEVICE_ERROR_MESSAGE}]
    /\ UNCHANGED <<ppc, inbuf, command, cfg, pleds, out, DISPLAY_CHANNEL, RETURN_CHANNEL,
                   DISPLAY_BUFFER, lpc, frame, wvars, tvars>>

-----------------------------------------------------------------------------
(* The host library's calls, src/lib.rs (src/tokio.rs is the same, async)  *)
(* The device's answers are any the port can deliver.                      *)

\* the most calls followed on one controller instance
MaxCalls == 3

\* the configurations callers pass to new and set_config
Configs == {[strips |-> 2, leds |-> 2], [strips |-> 1, leds |-> 1]}

\* what port.read(&mut output) can return, output being one byte long:
\* an I/O error (a timeout), no byte, or one byte
Reads ==
    {[err |-> TRUE, bytes |-> <<>>]}
    \cup {[err |-> FALSE, bytes |-> b] : b \in {<<>>, <<"p">>, <<"k">>, <<"e">>}}

\* nothing read yet
NoRead == [err |-> FALSE, bytes |-> <<>>]

\* Self { config, port, initialized: false }; the other fields follow the call
\* in progress: hpc its position, plan the commands it has still to send,
\* written its writes so far, output what its last read returned, result its result; resynced and acked record
\* what has succeeded on the instance
LibHost(c) ==
    [mode |-> "lib", id |-> 0, todo |-> <<>>, rx |-> <<>>, sent |-> <<>>,
     config |-> c, initialized |-> FALSE, hpc |-> "idle", plan |-> <<>>,
     written |-> <<>>, output |-> NoRead, result |-> "None", resynced |-> FALSE, acked |-> {}, calls |-> 0]

\* configure: reset_to_command unless initialized, then strips, then leds
ConfigurePlan(initialized) ==
    (IF ~initialized THEN <<"reset">> ELSE <<>>) \o <<"strips", "leds">>

\* send_leds: configure unless initialized, then update
SendLedsPlan(initialized) ==
    (IF ~initialized THEN ConfigurePlan(initialized) ELSE <<>>) \o <<"update">>

\* the first argument of send_command
TagOf(cmd) ==
    IF cmd = "strips" THEN SET_STRIPS_MESSAGE
    ELSE IF cmd = "leds" THEN SET_LEDS_MESSAGE
    ELSE UPDATE_MESSAGE

\* the second argument of send_command; the caller's pixel data is FrameA
DataOf(cmd, c) ==
    IF cmd = "strips" THEN to_le_bytes(c.strips)
    ELSE IF cmd = "leds" THEN to_le_bytes(c.leds)
    ELSE FrameA

\* variant: any single byte is taken for the expected one
ReadOutcomeLenient(r, expected) ==
    IF r.err THEN "IO"
    ELSE IF Len(r.bytes) # 1 THEN "NoResponse"
    ELSE "Ok"

\* if self.port.read(&mut output)? != 1 { NoResponse }
\* if &output != expected { UnexpectedResponse }
ReadOutcome(r, expected) ==
    IF r.err THEN "IO"
    ELSE IF Len(r.bytes) # 1 THEN "NoResponse"
    ELSE IF r.bytes[1] # expected THEN "UnexpectedResponse"
    ELSE "Ok"

\* the call returns Err(e): nothing of it is left to do
Failed(h, e) == [h EXCEPT !.hpc = "idle", !.plan = <<>>, !.result = e]

\* port.read(&mut output) has returned r
HasRead(h, r) == [h EXCEPT !.output = r]

\* the host variable alone changes
HostOnly ==
    UNCHANGED <<ppc, inbuf, command, cfg, pleds, out, DISPLAY_CHANNEL, RETURN_CHANNEL,
                DISPLAY_BUFFER, lpc, frame, wvars, tvars>>

\* configure(), set_config(c) or send_leds(..) is called
HostCall(api, c) ==
    /\ host.mode = "lib"
    /\ host.hpc = "idle"
    /\ host.calls < MaxCalls
    /\ host' = [host EXCEPT
                  !.config = IF api = "set_config" THEN c ELSE @,
                  !.plan = IF api = "send_leds" THEN SendLedsPlan(host.initialized)
                           ELSE ConfigurePlan(host.initialized),
                  !.hpc = "run",
                  !.written = <<>>,
                  !.output = NoRead,
                  !.result = "Running",
                  !.calls = @ + 1]
    /\ HostOnly

\* self.reset_to_command()?; self.initialized = true;
HostReset(ok) ==
    /\ host.mode = "lib"
    /\ host.hpc = "run"
    /\ Head(host.plan) = "reset"
    /\ host' = IF ok
               THEN [host EXCEPT !.initialized = TRUE, !.resynced = TRUE, !.plan = Tail(@)]
               ELSE Failed(host, "IO")
    /\ HostOnly

\* send_command: self.serial_write(command)?
HostWriteTag(ok) ==
    /\ host.mode = "lib"
    /\ host.hpc = "run"
    /\ Head(host.plan) # "reset"
    /\ host' = IF ok
               THEN [host EXCEPT !.written = Append(@, TagOf(Head(host.plan))), !.hpc = "read_p"]
               ELSE Failed(host, "IO")
    /\ HostOnly

\* send_command: the first read, then self.serial_write(data)?
HostReadPartial(r, ok) ==
    /\ host.mode = "lib"
    /\ host.hpc = "read_p"
    /\ host' = IF ReadOutcome(r, DEVICE_PARTIAL_MESSAGE) # "Ok"
               THEN Failed(HasRead(host, r), ReadOutcome(r, DEVICE_PARTIAL_MESSAGE))
               ELSE IF ~ok THEN Failed(HasRead(host, r), "IO")
               ELSE [HasRead(host, r) EXCEPT !.written = Append(@, DataOf(Head(host.plan), host.config)),
                                 !.hpc = "read_k"]
    /\ HostOnly

\* send_command: the second read; Ok(()) and on to the caller's next command
HostReadOk(r) ==
    /\ host.mode = "lib"
    /\ host.hpc = "read_k"
    /\ host' = IF ReadOutcome(r, DEVICE_OK_MESSAGE) # "Ok"
               THEN Failed(HasRead(host, r), ReadOutcome(r, DEVICE_OK_MESSAGE))
               ELSE [HasRead(host, r) EXCEPT !.acked = @ \cup {Head(host.plan)},
                                 !.plan = Tail(@),
                                 !.hpc = IF Tail(host.plan) = <<>> THEN "idle" ELSE "run",
                                 !.result = IF Tail(host.plan) = <<>> THEN "Ok" ELSE @]
    /\ HostOnly

-----------------------------------------------------------------------------
(* SerialWs2812::find, src/lib.rs and src/tokio.rs                         *)

\* the most ports the OS lists
MaxPorts == 3

\* the kinds of port the OS may list: the device, the device as some systems
\* spell its product name, another product under the same (shared) vendor
\* id, an unrelated USB port, and a port that is not USB
PortKinds ==
    {[kind |-> "device", usb |-> TRUE, vid |-> DEVICE_VENDOR_ID, pid |-> DEVICE_PRODUCT_ID,
      product |-> DEVICE_PRODUCT_NAME],
     [kind |-> "device", usb |-> TRUE, vid |-> DEVICE_VENDOR_ID, pid |-> DEVICE_PRODUCT_ID,
      product |-> "Serial_WS2812"],
     [kind |-> "same vendor", usb |-> TRUE, vid |-> DEVICE_VENDOR_ID, pid |-> 1,
      product |-> "Other"],
     [kind |-> "other usb", usb |-> TRUE, vid |-> 1, pid |-> 1, product |-> "Other"],
     [kind |-> "not usb", usb |-> FALSE, vid |-> 0, pid |-> 0, product |-> ""]}

\* serialport::available_ports(): a port's name is its place in the list
PortLists == UNION {[1 .. n -> PortKinds] : n \in 0 .. MaxPorts}

\* src/lib.rs: usb.vid == DEVICE_VENDOR_ID || usb.pid == DEVICE_PRODUCT_ID
MatchesIds(p) == p.usb /\ (p.vid = DEVICE_VENDOR_ID \/ p.pid = DEVICE_PRODUCT_ID)

\* src/tokio.rs: usb.product is DEVICE_PRODUCT_NAME, as it is or with '_' for ' '
MatchesProduct(p) == p.usb /\ p.product \in {DEVICE_PRODUCT_NAME, "Serial_WS2812"}

\* for p in ports { if matches { serial_device = Some(p.port_name) } }, from port n on
RECURSIVE FindFrom(_, _, _, _)
FindFrom(ports, lib, n, serial_device) ==
    IF n > Len(ports) THEN serial_device
    ELSE FindFrom(ports, lib, n + 1,
                  IF (lib /\ MatchesIds(ports[n])) \/ (~lib /\ MatchesProduct(ports[n]))
                  THEN <<n>> ELSE serial_device)

\* find: the name of the port the controller is made from (0 or 1)
find(ports, lib) == FindFrom(ports, lib, 1, <<>>)

\* the OS lists host.ports; find has not been called
FindHost(ports) ==
    [mode |-> "find", id |-> 0, todo |-> <<>>, rx |-> <<>>, sent |-> <<>>,
     ports |-> ports, called |-> "no", found |-> <<>>]

\* SerialWs2812::find(config) of src/lib.rs
FindSync ==
    /\ host.mode = "find"
    /\ host.called = "no"
    /\ host' = [host EXCEPT !.called = "lib", !.found = find(host.ports, TRUE)]
    /\ HostOnly

\* tokio::SerialWs2812::find(config)
FindTokio ==
    /\ host.mode = "find"
    /\ host.called = "no"
    /\ host' = [host EXCEPT !.called = "tokio", !.found = find(host.ports, FALSE)]
    /\ HostOnly

-----------------------------------------------------------------------------
(* State after boot (firmware/src/main.rs): the buffer is zeroed and sent  *)
(* to RETURN_CHANNEL before either task runs.                              *)

\* variant: the buffer reference seeded into both channels
BootDoubleSeed ==
    /\ ppc = "wait_connection"
    /\ inbuf = <<>>
    /\ command = "None"
    /\ cfg = DefaultCfg
    /\ pleds = <<>>
    /\ out = <<>>
    /\ DISPLAY_CHANNEL = Put(<<>>, [num_leds |-> 0, leds |-> BufRef])
    /\ RETURN_CHANNEL = Put(<<>>, BufRef)
    /\ DISPLAY_BUFFER = <<>>
    /\ lpc = "receive"
    /\ frame = <<>>

Boot ==
    /\ ppc = "wait_connection"
    /\ inbuf = <<>>
    /\ command = "None"
    /\ cfg = DefaultCfg
    /\ pleds = <<>>
    /\ out = <<>>
    /\ DISPLAY_CHANNEL = <<>>
    /\ RETURN_CHANNEL = Put(<<>>, BufRef)
    /\ DISPLAY_BUFFER = <<>>
    /\ lpc = "receive"
    /\ frame = <<>>

\* parallel_led_task before its loop: out_buf zeroed, last_write = Instant::now()
LedStart ==
    /\ wpc = "gap"
    /\ li = 0
    /\ written_bytes = 0
    /\ out_buf = <<>>
    /\ pushed = <<>>
    /\ elapsed = 0
    /\ timer = 0

\* no array has been handed to the transposer
TransposerIdle ==
    /\ tsrc = <<0, 0, 0, 0, 0, 0, 0, 0>>
    /\ tb = <<0, 0, 0, 0, 0, 0, 0, 0>>
    /\ tn = 0

Init == Boot /\ LedStart /\ TransposerIdle /\ host = FreeHost

InitScenario == Boot /\ LedStart /\ TransposerIdle /\ host \in {ScriptHost(id) : id \in ScriptIds}

-----------------------------------------------------------------------------
(* Protocol task (core 0)                                                  *)

\* class.wait_connection() returns; read_serial starts with fresh locals
Connect ==
    /\ ppc = "wait_connection"
    /\ ppc' = "read_packet"
    /\ inbuf' = <<>>
    /\ command' = "None"
    /\ cfg' = DefaultCfg
    /\ out' = <<>>
    /\ host' = HostOnConnect
    /\ UNCHANGED <<pleds, DISPLAY_CHANNEL, RETURN_CHANNEL, DISPLAY_BUFFER, lpc, frame, wvars, tvars>>

\* variant: the channel send counted among the awaits that can fail
ReturnsOnErrorAnywhere(pc) == pc \in {"read_packet", "send"}

\* the awaits of read_serial followed by `?`; the channel awaits cannot fail
\* (a failing write_packet is the fail parameter of ReadPacket)
ReturnsOnError(pc) == pc = "read_packet"

\* read_packet returns Err(Disabled): read_serial returns through `?`
Disconnect ==
    /\ ReturnsOnError(ppc)
    /\ ppc' = "wait_connection"
    /\ UNCHANGED <<inbuf, command, cfg, pleds, out, DISPLAY_CHANNEL, RETURN_CHANNEL,
                   DISPLAY_BUFFER, lpc, frame, host, wvars, tvars>>

\* read_packet(&mut buf[idx..]) is handed a packet longer than buf[idx..]: it
\* returns Err(BufferOverflow), which Disconnected::from turns into a panic
ReadOverflow(pkt) ==
    /\ ppc = "read_packet"
    /\ pkt \in Offered
    /\ Len(pkt) > BufLen - Len(inbuf)
    /\ ppc' = "panic"
    /\ UNCHANGED <<inbuf, command, cfg, pleds, out, DISPLAY_CHANNEL, RETURN_CHANNEL,
                   DISPLAY_BUFFER, lpc, frame, host, wvars, tvars>>

\* read_packet returns pkt and the loop body runs to its next await.
\* fail = 0: every write_packet succeeds; fail = n: the n-th write_packet of
\* the iteration returns Err(Disabled) and read_serial returns through `?`.
ReadPacket(pkt, fail) ==
    /\ ppc = "read_packet"
    /\ pkt \in Offered
    /\ Len(pkt) <= BufLen - Len(inbuf)
    /\ LET b == inbuf \o pkt
           r == Iteration(b, command, cfg)
       IN  /\ fail \in 0 .. Len(r.w)
           /\ IF fail = 0
              THEN /\ inbuf' = r.buf
                   /\ command' = r.command
                   /\ cfg' = r.cfg
                   /\ ppc' = r.next
                   /\ out' = r.w
                   /\ host' = HostAfter(r.w)
              ELSE /\ inbuf' = b
                   /\ UNCHANGED <<command, cfg>>
                   /\ ppc' = "wait_connection"
                   /\ out' = SubSeq(r.w, 1, fail - 1)
                   /\ host' = HostAfter(SubSeq(r.w, 1, fail - 1))
    /\ UNCHANGED <<pleds, DISPLAY_CHANNEL, RETURN_CHANNEL, DISPLAY_BUFFER, lpc, frame, wvars, tvars>>

\* RETURN_CHANNEL.recv() completes, then the payload is copied into the buffer
RecvBuffer ==
    /\ ppc = "recv"
    /\ RETURN_CHANNEL # <<>>
    /\ pleds' = <<Head(RETURN_CHANNEL)>>
    /\ RETURN_CHANNEL' = Taken(RETURN_CHANNEL)
    /\ DISPLAY_BUFFER' = CopyRows(DISPLAY_BUFFER, SubSeq(inbuf, MESSAGE_TYPE_LEN + 1, Len(inbuf)), cfg)
    /\ ppc' = "send"
    /\ UNCHANGED <<inbuf, command, cfg, out, DISPLAY_CHANNEL, lpc, frame, host, wvars, tvars>>

\* DISPLAY_CHANNEL.send((cfg.leds, leds)) completes; command = None; idx = 0;
SendDisplay ==
    /\ ppc = "send"
    /\ Len(DISPLAY_CHANNEL) < Capacity
    /\ DISPLAY_CHANNEL' = Put(DISPLAY_CHANNEL, [num_leds |-> cfg.leds, leds |-> Head(pleds)])
    /\ pleds' = Tail(pleds)
    /\ command' = "None"
    /\ inbuf' = AfterCommand(inbuf, cfg)
    /\ ppc' = "read_packet"
    /\ host' = HostHanded(cfg, SubSeq(inbuf, MESSAGE_TYPE_LEN + 1, Len(inbuf)))
    /\ UNCHANGED <<cfg, out, RETURN_CHANNEL, DISPLAY_BUFFER, lpc, frame, wvars, tvars>>

-----------------------------------------------------------------------------
(* LED task (core 1), firmware/src/ws2812.rs                               *)

\* DISPLAY_CHANNEL.receive() completes
LedReceive ==
    /\ lpc = "receive"
    /\ DISPLAY_CHANNEL # <<>>
    /\ frame' = <<Head(DISPLAY_CHANNEL)>>
    /\ DISPLAY_CHANNEL' = Taken(DISPLAY_CHANNEL)
    /\ lpc' = "write"
    /\ UNCHANGED <<ppc, inbuf, command, cfg, pleds, out, RETURN_CHANNEL, DISPLAY_BUFFER, host, wvars, tvars>>

\* the reset gap has passed and write_data_direct has run
LedWrite ==
    /\ lpc = "write"
    /\ lpc' = "return"
    /\ UNCHANGED <<ppc, inbuf, command, cfg, pleds, out, DISPLAY_CHANNEL, RETURN_CHANNEL,
                   DISPLAY_BUFFER, frame, host, wvars, tvars>>

\* variant: the buffer is dropped, not sent back
LedReturnDropped ==
    /\ lpc = "return"
    /\ frame' = Tail(frame)
    /\ lpc' = "drain"
    /\ UNCHANGED <<ppc, inbuf, command, cfg, pleds, out, DISPLAY_CHANNEL, RETURN_CHANNEL,
                   DISPLAY_BUFFER, host, wvars, tvars>>

\* RETURN_CHANNEL.send(leds) completes
LedReturn ==
    /\ lpc = "return"
    /\ Len(RETURN_CHANNEL) < Capacity
    /\ RETURN_CHANNEL' = Put(RETURN_CHANNEL, Head(frame).leds)
    /\ frame' = Tail(frame)
    /\ lpc' = "drain"
    /\ UNCHANGED <<ppc, inbuf, command, cfg, pleds, out, DISPLAY_CHANNEL, DISPLAY_BUFFER, host, wvars, tvars>>

\* the TX FIFO is empty: last_write = Instant::now()
LedDrain ==
    /\ lpc = "drain"
    /\ lpc' = "receive"
    /\ pushed' = <<>>
    /\ elapsed' = 0
    /\ timer' = 0
    /\ UNCHANGED <<ppc, inbuf, command, cfg, pleds, out, DISPLAY_CHANNEL, RETURN_CHANNEL,
                   DISPLAY_BUFFER, frame, host, wpc, li, written_bytes, out_buf, tvars>>

-----------------------------------------------------------------------------
(* The LED task between receive and return, step by step:                  *)
(* the reset gap and write_data_direct                                     *)

RESET_DURATION == 280

\* what Instant::now() - last_write may read when a frame arrives, in microseconds
Gaps == {0, 100, 279, 280, 1000}

\* how long after its deadline the timer may fire, in microseconds
Late == {0, 7}

\* variant: the timer is set to the time already passed
RemainderElapsed(diff) == diff

\* RESET_DURATION - diff
Remainder(diff) == RESET_DURATION - diff

\* variant: the colours gathered in payload order
GatherOrderRGB == <<0, 1, 2>>

\* for (j, color) in [1, 0, 2].into_iter().enumerate()
GatherOrder == <<1, 0, 2>>

Min(a, b) == IF a < b THEN a ELSE b
Max(a, b) == IF a > b THEN a ELSE b

\* let leds_to_write = to_write.min(leds[0].len());
LedsToWrite(f) == Min(f.num_leds, MAX_LEDS_PER_STRIP)

\* current = [leds[0][i][color], ..., leds[7][i][color]]
Current(mem, i, color) == [n \in 1 .. MAX_STRIPS |-> Px(mem, n - 1, i)[color + 1]]

\* the 24 bytes the inner for loop writes to out[byte_idx .. byte_idx + 24]
Transposed(mem, i) ==
    compress_byte(Current(mem, i, GatherOrder[1]))
    \o compress_byte(Current(mem, i, GatherOrder[2]))
    \o compress_byte(Current(mem, i, GatherOrder[3]))

\* out[at .. at + bytes.len()] overwritten; out is zero where never written
Overwrite(buf, at, bytes) ==
    [n \in 1 .. Max(Len(buf), at + Len(bytes)) |->
        IF n > at /\ n <= at + Len(bytes) THEN bytes[n - at]
        ELSE IF n <= Len(buf) THEN buf[n] ELSE 0]

\* out[n], zero where never written
OutAt(buf, n) == IF n + 1 <= Len(buf) THEN buf[n + 1] ELSE 0

\* u32::from_be_bytes([out[w], out[w + 1], out[w + 2], out[w + 3]]), as two 16-bit halves
from_be_bytes(buf, w) ==
    [hi |-> OutAt(buf, w) * 256 + OutAt(buf, w + 1),
     lo |-> OutAt(buf, w + 2) * 256 + OutAt(buf, w + 3)]

\* variant: the bytes of one strip only
TotalToWriteOneStrip(f) ==
    LET t == BYTES_PER_LED * LedsToWrite(f)
    IN  IF t % 4 # 0 THEN t + (4 - (t % 4)) ELSE t

\* total_to_write, rounded up to whole words
TotalToWrite(f) ==
    LET t == BYTES_PER_LED * MAX_STRIPS * LedsToWrite(f)
    IN  IF t % 4 # 0 THEN t + (4 - (t % 4)) ELSE t

\* where write_data_direct starts: the for loop, or past it when there is no LED
LoopStart(f) == IF LedsToWrite(f) = 0 THEN "flush" ELSE "loop"

\* let diff = Instant::now() - last_write; the timer is armed when diff is short
LedGap(diff) ==
    /\ lpc = "write"
    /\ wpc = "gap"
    /\ elapsed' = diff
    /\ IF diff < RESET_DURATION
       THEN timer' = Remainder(diff) /\ wpc' = "sleep"
       ELSE timer' = 0 /\ wpc' = LoopStart(Head(frame))
    /\ UNCHANGED <<ppc, inbuf, command, cfg, pleds, out, DISPLAY_CHANNEL, RETURN_CHANNEL,
                   DISPLAY_BUFFER, lpc, frame, host, li, written_bytes, out_buf, pushed, tvars>>

\* Timer::after(RESET_DURATION - diff) completes, late microseconds after its deadline
LedWake(late) ==
    /\ lpc = "write"
    /\ wpc = "sleep"
    /\ elapsed' = elapsed + timer + late
    /\ timer' = 0
    /\ wpc' = LoopStart(Head(frame))
    /\ UNCHANGED <<ppc, inbuf, command, cfg, pleds, out, DISPLAY_CHANNEL, RETURN_CHANNEL,
                   DISPLAY_BUFFER, lpc, frame, host, li, written_bytes, out_buf, pushed, tvars>>

\* one pass of the inner for loop: LED i of all eight rows, G then R then B
LedTranspose ==
    /\ lpc = "write"
    /\ wpc = "loop"
    /\ out_buf' = Overwrite(out_buf, BYTES_PER_LED * MAX_STRIPS * li, Transposed(DISPLAY_BUFFER, li))
    /\ wpc' = "push"
    /\ UNCHANGED <<ppc, inbuf, command, cfg, pleds, out, DISPLAY_CHANNEL, RETURN_CHANNEL,
                   DISPLAY_BUFFER, lpc, frame, host, li, written_bytes, pushed, elapsed, timer, tvars>>

\* while byte_idx - written_bytes >= 4 && !tx.full() { tx.push(..); written_bytes += 4 }
LedPush ==
    /\ lpc = "write"
    /\ wpc = "push"
    /\ BYTES_PER_LED * MAX_STRIPS * li - written_bytes >= 4
    /\ pushed' = Append(pushed, from_be_bytes(out_buf, written_bytes))
    /\ written_bytes' = written_bytes + 4
    /\ UNCHANGED <<ppc, inbuf, command, cfg, pleds, out, DISPLAY_CHANNEL, RETURN_CHANNEL,
                   DISPLAY_BUFFER, lpc, frame, host, wpc, li, out_buf, elapsed, timer, tvars>>

\* the while loop ends (nothing to push, or the FIFO is full): next i, or past the for loop
LedNextLed ==
    /\ lpc = "write"
    /\ wpc = "push"
    /\ li' = li + 1
    /\ wpc' = IF li + 1 < LedsToWrite(Head(frame)) THEN "loop" ELSE "flush"
    /\ UNCHANGED <<ppc, inbuf, command, cfg, pleds, out, DISPLAY_CHANNEL, RETURN_CHANNEL,
                   DISPLAY_BUFFER, lpc, frame, host, written_bytes, out_buf, pushed, elapsed,
                   timer, tvars>>

\* while total_to_write - written_bytes >= 4 { if tx.try_push(..) { written_bytes += 4 } }
\* (a try_push that fails changes nothing)
LedFlush ==
    /\ lpc = "write"
    /\ wpc = "flush"
    /\ TotalToWrite(Head(frame)) - written_bytes >= 4
    /\ pushed' = Append(pushed, from_be_bytes(out_buf, written_bytes))
    /\ written_bytes' = written_bytes + 4
    /\ UNCHANGED <<ppc, inbuf, command, cfg, pleds, out, DISPLAY_CHANNEL, RETURN_CHANNEL,
                   DISPLAY_BUFFER, lpc, frame, host, wpc, li, out_buf, elapsed, timer, tvars>>

\* write_data_direct returns
LedWritten ==
    /\ lpc = "write"
    /\ wpc = "flush"
    /\ TotalToWrite(Head(frame)) - written_bytes < 4
    /\ lpc' = "return"
    /\ wpc' = "gap"
    /\ li' = 0
    /\ written_bytes' = 0
    /\ UNCHANGED <<ppc, inbuf, command, cfg, pleds, out, DISPLAY_CHANNEL, RETURN_CHANNEL,
                   DISPLAY_BUFFER, frame, host, out_buf, pushed, elapsed, timer, tvars>>

-----------------------------------------------------------------------------

\* the most write_packet calls one iteration makes (`p` then `k`)
MaxWrites == 2

Next ==
    \/ Connect
    \/ Disconnect
    \/ \E pkt \in Offered : \E fail \in 0 .. MaxWrites : ReadPacket(pkt, fail)
    \/ RecvBuffer
    \/ SendDisplay
    \/ LedReceive
    \/ LedWrite
    \/ LedReturn
    \/ LedDrain

Spec == Init /\ [][Next]_vars

SpecScenario == InitScenario /\ [][Next]_vars

\* the sessions whose frames are followed to the pins
LedScriptIds == {4, 5, 6, 7}

InitLed == Boot /\ LedStart /\ TransposerIdle /\ host \in {ScriptHost(id) : id \in LedScriptIds}

NextLed ==
    \/ Connect
    \/ Disconnect
    \/ \E pkt \in Offered : \E fail \in 0 .. MaxWrites : ReadPacket(pkt, fail)
    \/ RecvBuffer
    \/ SendDisplay
    \/ LedReceive
    \/ \E diff \in Gaps : LedGap(diff)
    \/ \E late \in Late : LedWake(late)
    \/ LedTranspose
    \/ LedPush
    \/ LedNextLed
    \/ LedFlush
    \/ LedWritten
    \/ LedReturn
    \/ LedDrain

SpecLed == InitLed /\ [][NextLed]_vars

\* A host that has a number refused and goes on writing
OverflowScriptIds == {8, 9}

InitOverflow == Boot /\ LedStart /\ TransposerIdle /\ host \in {ScriptHost(id) : id \in OverflowScriptIds}

NextOverflow ==
    \/ Connect
    \/ Disconnect
    \/ \E pkt \in Offered : \E fail \in 0 .. MaxWrites : ReadPacket(pkt, fail)
    \/ \E pkt \in Offered : ReadOverflow(pkt)

SpecOverflow == InitOverflow /\ [][NextOverflow]_vars

\* what read_serial may be holding when the host starts to resynchronise:
\* nothing or stale bytes while no command is pending, a tag whose payload
\* has not come, or a number it has refused
ResyncStarts ==
    {[buf |-> b, command |-> "None", cfg |-> DefaultCfg] :
        b \in {<<>>, NullByte, SubSeq(EightNulls, 1, 7), SubSeq(SET_LEDS_MESSAGE, 1, 4)}}
    \cup {[buf |-> SET_LEDS_MESSAGE, command |-> "SetLeds", cfg |-> DefaultCfg],
          [buf |-> SET_STRIPS_MESSAGE, command |-> "SetStrips", cfg |-> DefaultCfg],
          [buf |-> UPDATE_MESSAGE, command |-> "Update", cfg |-> [strips |-> 1, leds |-> 1]],
          [buf |-> SET_LEDS_MESSAGE \o to_le_bytes(513), command |-> "SetLeds", cfg |-> DefaultCfg]}

\* connected, suspended at read_packet, the buffer in RETURN_CHANNEL
InitResync ==
    /\ ppc = "read_packet"
    /\ \E st \in ResyncStarts : inbuf = st.buf /\ command = st.command /\ cfg = st.cfg
    /\ pleds = <<>>
    /\ out = <<>>
    /\ DISPLAY_CHANNEL = <<>>
    /\ RETURN_CHANNEL = Put(<<>>, BufRef)
    /\ DISPLAY_BUFFER = <<>>
    /\ lpc = "receive"
    /\ frame = <<>>
    /\ LedStart /\ TransposerIdle
    /\ host = ResyncHost

NextResync ==
    \/ HostTimeout
    \/ HostRead
    \/ \E pkt \in Offered : ReadPacket(pkt, 0)
    \/ RecvBuffer
    \/ SendDisplay
    \/ LedReceive
    \/ LedWrite
    \/ LedReturn
    \/ LedDrain

SpecResync == InitResync /\ [][NextResync]_vars

\* a controller instance fresh from new(), the device untouched
InitLib == Boot /\ LedStart /\ TransposerIdle /\ host \in {LibHost(c) : c \in Configs}

NextLib ==
    \/ \E api \in {"configure", "set_config", "send_leds"} : \E c \in Configs : HostCall(api, c)
    \/ \E ok \in BOOLEAN : HostReset(ok)
    \/ \E ok \in BOOLEAN : HostWriteTag(ok)
    \/ \E r \in Reads : \E ok \in BOOLEAN : HostReadPartial(r, ok)
    \/ \E r \in Reads : HostReadOk(r)

SpecLib == InitLib /\ [][NextLib]_vars

InitFind == Boot /\ LedStart /\ TransposerIdle /\ host \in {FindHost(ports) : ports \in PortLists}

NextFind == FindSync \/ FindTokio

SpecFind == InitFind /\ [][NextFind]_vars

\* ENABLED <<LedTranspose>>_vars: the for loop is about to gather LED i
LedTransposeEnabled == lpc = "write" /\ wpc = "loop"

\* the steps of the protocol task that wait on a channel
HandOffStep == RecvBuffer \/ SendDisplay

\* the steps of led_task, the only task of core 1, but for LedTranspose
LedTaskStep ==
    \/ LedReceive
    \/ \E diff \in Gaps : LedGap(diff)
    \/ \E late \in Late : LedWake(late)
    \/ LedPush
    \/ LedNextLed
    \/ LedFlush
    \/ LedWritten
    \/ LedReturn
    \/ LedDrain

\* Both tasks are scheduled, the timer fires, and the PIO goes on taking words
\* out of its FIFO, so that the loops of write_data_direct get their pushes
\* through.  Nothing obliges the host to write or the link to stay up.
\* The last conjunct is WF_vars(LedTranspose) with its ENABLED written out.
SpecLedFair ==
    /\ InitLed
    /\ [][NextLed]_vars
    /\ WF_vars(HandOffStep)
    /\ WF_vars(LedTaskStep)
    /\ ([]<>(~LedTransposeEnabled) \/ []<><<LedTranspose>>_vars)

\* Both tasks are scheduled: each core's executor polls a task whose await
\* can complete, and the LED task is the only task of core 1.  Nothing
\* obliges the host to write or the link to stay up.
SpecScenarioFair ==
    /\ InitScenario
    /\ [][Next]_vars
    /\ WF_vars(RecvBuffer)
    /\ WF_vars(SendDisplay)
    /\ WF_vars(LedReceive)
    /\ WF_vars(LedWrite)
    /\ WF_vars(LedReturn)
    /\ WF_vars(LedDrain)

-----------------------------------------------------------------------------
(* The transposer applied to arrays of its own                             *)

\* how often compress_byte is applied to its own output
MaxApply == 4

\* the array with only bit k (0 = least significant) of byte s set
OneBit(s, k) == [n \in 1 .. 8 |-> IF n = s + 1 THEN 2 ^ k ELSE 0]

\* byte n holds 0x80 >> n
Diagonal == <<128, 64, 32, 16, 8, 4, 2, 1>>

\* bytes whose low bits are shifted across byte boundaries by shift()
Carrying == <<255, 0, 255, 0, 0, 255, 0, 255>>

TransposerInputs ==
    {OneBit(s, k) : s \in 0 .. 7, k \in 0 .. 7}
    \cup {Diagonal, Carrying, <<255, 255, 255, 255, 255, 255, 255, 255>>,
          <<1, 2, 3, 4, 5, 6, 7, 8>>, <<0, 0, 0, 0, 0, 0, 0, 0>>}

\* everything but the transposer is as after start-up
InitTranspose ==
    /\ Boot /\ LedStart /\ host = FreeHost
    /\ tsrc \in TransposerInputs
    /\ tb = tsrc
    /\ tn = 0

\* compress_byte(&mut current, &mut out[..8]); the output becomes the next input
Transpose ==
    /\ tn < MaxApply
    /\ tb' = compress_byte(tb)
    /\ tn' = tn + 1
    /\ UNCHANGED <<tsrc, ppc, inbuf, command, cfg, pleds, out, DISPLAY_CHANNEL, RETURN_CHANNEL,
                   DISPLAY_BUFFER, lpc, frame, host, wvars>>

NextTranspose == Transpose

SpecTranspose == InitTranspose /\ [][NextTranspose]_vars

-----------------------------------------------------------------------------
(* Vocabulary of the properties                                            *)

Range(f) == {f[i] : i \in DOMAIN f}

\* every packet a host of either kind may write
AllPackets == Packets \cup UNION {Range(Script(id)) : id \in ScriptIds}

Tags == {UPDATE_MESSAGE, SET_STRIPS_MESSAGE, SET_LEDS_MESSAGE}

\* the command an iteration works on once b is buffered: the pending one, or
\* the one named by the first eight bytes
InEffect(b) ==
    IF command # "None" THEN command
    ELSE IF Len(b) < 8 THEN "None"
    ELSE IF SubSeq(b, 1, 8) = UPDATE_MESSAGE THEN "Update"
    ELSE IF SubSeq(b, 1, 8) = SET_STRIPS_MESSAGE THEN "SetStrips"
    ELSE IF SubSeq(b, 1, 8) = SET_LEDS_MESSAGE THEN "SetLeds"
    ELSE "None"

\* bytes 8..11 of b, read as a little-endian u32, are greater than max (max < 65536)
ValueAbove(b, max) == b[11] # 0 \/ b[12] # 0 \/ b[9] + 256 * b[10] > max

\* a SetStrips / SetLeds command with an out-of-range value is complete in b
OutOfRange(b) ==
    /\ Len(b) >= 12
    /\ \/ InEffect(b) = "SetStrips" /\ ValueAbove(b, 8)
       \/ InEffect(b) = "SetLeds" /\ ValueAbove(b, 512)

\* the number of places holding a reference to the frame buffer
Owners == Len(pleds) + Len(frame) + Len(DISPLAY_CHANNEL) + Len(RETURN_CHANNEL)

-----------------------------------------------------------------------------
(* C1: in every reachable state the frame buffer has exactly one owner:    *)
(* the protocol task (exactly between RETURN.recv and DISPLAY.send), the   *)
(* LED task (exactly between DISPLAY.receive and RETURN.send), DISPLAY or  *)
(* RETURN; never two places, never none.                                   *)
C1_ExactlyOneOwner ==
    /\ Owners = 1
    /\ (pleds # <<>>) <=> (ppc = "send")
    /\ (frame # <<>>) <=> (lpc \in {"write", "return"})
    /\ \A i \in DOMAIN DISPLAY_CHANNEL : DISPLAY_CHANNEL[i].leds = BufRef
    /\ \A i \in DOMAIN RETURN_CHANNEL : RETURN_CHANNEL[i] = BufRef

\* the protocol task holds the buffer of a second frame while the LED task idles
C1_Witness ==
    /\ ppc = "send" /\ pleds = <<BufRef>>
    /\ lpc = "receive" /\ DISPLAY_BUFFER # <<>>

(* C2 as stated: DISPLAY and RETURN never both hold a reference, and       *)
(* together they hold exactly one reference in every reachable state.      *)
C2_JointOccupancyExactlyOne ==
    /\ ~(DISPLAY_CHANNEL # <<>> /\ RETURN_CHANNEL # <<>>)
    /\ Len(DISPLAY_CHANNEL) + Len(RETURN_CHANNEL) = 1

(* C2 amended: DISPLAY and RETURN never both hold a reference; together    *)
(* they hold at most one, and none exactly while a task holds the buffer.  *)
C2_JointOccupancyAtMostOne ==
    /\ ~(DISPLAY_CHANNEL # <<>> /\ RETURN_CHANNEL # <<>>)
    /\ Len(DISPLAY_CHANNEL) + Len(RETURN_CHANNEL) <= 1
    /\ (Len(DISPLAY_CHANNEL) + Len(RETURN_CHANNEL) = 0) <=> (pleds # <<>> \/ frame # <<>>)

\* both channels are empty while the LED task streams the frame
C2_Witness ==
    /\ DISPLAY_CHANNEL = <<>> /\ RETURN_CHANNEL = <<>>
    /\ lpc = "write" /\ frame # <<>>

(* C3: a SetStrips value above 8 and a SetLeds value above 512 is answered *)
(* with `e` and leaves the configuration as it was.                        *)
C3_OutOfRangeRejected ==
    [][\A pkt \in AllPackets :
         (ReadPacket(pkt, 0) /\ OutOfRange(inbuf \o pkt))
            => /\ out' # <<>>
               /\ out'[Len(out')] = "e"
               /\ "k" \notin Range(out')
               /\ cfg' = cfg]_vars

\* SetStrips(9) was just answered `e` under a non-default configuration
C3_Witness ==
    /\ ppc = "read_packet" /\ out = <<"e">>
    /\ command = "SetStrips"
    /\ inbuf = SET_STRIPS_MESSAGE \o <<9, 0, 0, 0>>
    /\ cfg = [strips |-> 1, leds |-> 1]

(* C4: after an out-of-range SetStrips / SetLeds the device emits a single *)
(* `e`, clears the pending command and the input buffer and is Idle again, *)
(* so that a later valid command is accepted.                              *)
C4_ResumesAfterOutOfRange ==
    [][\A pkt \in AllPackets :
         (ReadPacket(pkt, 0) /\ OutOfRange(inbuf \o pkt))
            => /\ out'[Len(out')] = "e"
               /\ command' = "None"
               /\ inbuf' = <<>>
               /\ ppc' = "read_packet"]_vars

(* C5: in every reachable state 1 <= strips <= 8 and 1 <= leds <= 512.     *)
C5_ConfigInRange ==
    /\ 1 <= cfg.strips /\ cfg.strips <= 8
    /\ 1 <= cfg.leds /\ cfg.leds <= 512

(* C6: in Idle, once 8 bytes are buffered and the first 8 are no tag, the  *)
(* device emits exactly one `e`, discards the whole input buffer and stays *)
(* Idle; from Idle, a buffer that starts with a tag is answered `p` first. *)
C6_GarbageTagRecovered ==
    [][\A pkt \in AllPackets :
         LET b == inbuf \o pkt
         IN  (ReadPacket(pkt, 0) /\ command = "None" /\ Len(b) >= 8)
                => /\ SubSeq(b, 1, 8) \notin Tags
                        => /\ out' = <<"e">>
                           /\ inbuf' = <<>>
                           /\ command' = "None"
                           /\ ppc' = "read_packet"
                   /\ SubSeq(b, 1, 8) \in Tags
                        => /\ out' # <<>>
                           /\ out'[1] = "p"]_vars

\* more than eight garbage bytes were just discarded with one `e`
C6_Witness ==
    /\ ppc = "read_packet" /\ out = <<"e">>
    /\ command = "None" /\ inbuf = <<>>

(* C7 as stated: Idle with an empty input buffer, a single null byte is    *)
(* answered with one `e` and leaves no pending command and no input.       *)
C7_NullByteAnswered ==
    [][(ReadPacket(NullByte, 0) /\ command = "None" /\ inbuf = <<>>)
          => /\ out' = <<"e">>
             /\ command' = "None"
             /\ inbuf' = <<>>]_vars

(* C7 amended: Idle with an empty input buffer, a single null byte gets no *)
(* reply and stays buffered; `e` is written when the eighth null byte      *)
(* arrives, and the input buffer is empty after it.                        *)
C7_NullByteBuffered ==
    [][/\ (ReadPacket(NullByte, 0) /\ command = "None" /\ inbuf = <<>>)
          => /\ out' = <<>>
             /\ command' = "None"
             /\ inbuf' = NullByte
             /\ ppc' = "read_packet"
       /\ (ReadPacket(NullByte, 0) /\ command = "None" /\ inbuf = <<0, 0, 0, 0, 0, 0, 0>>)
          => /\ out' = <<"e">>
             /\ command' = "None"
             /\ inbuf' = <<>>]_vars

\* one null byte is buffered and nothing was replied
C7_Witness ==
    /\ ppc = "read_packet" /\ out = <<>>
    /\ command = "None" /\ inbuf = NullByte

\* the replies the start-up scenario is meant to read
ScenarioReplies == <<"e", "p", "k", "p", "k", "p", "k">>

\* the scripted host has written its whole session and the device has finished with it
SessionDone == host.mode = "script" /\ host.todo = <<>> /\ ppc = "read_packet"

\* rows 0..2 of the buffer hold the 18 scenario bytes in order, 2 LEDs per row
ScenarioRows ==
    \A s \in 0 .. 2 : \A i \in 0 .. 1 :
        Px(DISPLAY_BUFFER, s, i) = SubSeq(ScenarioPayload, 6 * s + 3 * i + 1, 6 * s + 3 * i + 3)

(* C8 as stated: from a fresh connection, one byte 00, then strips(3),     *)
(* leds(2) and update(18 bytes), is answered e, p,k, p,k, p,k and the      *)
(* frame of 2 LEDs per row is in rows 0..2 of the buffer.                  *)
C8_ScenarioOneNull ==
    (SessionDone /\ host.id = 1) => (host.rx = ScenarioReplies /\ ScenarioRows)

(* C8 amended: the same session started with eight bytes 00 (in one write  *)
(* or one byte per write) is answered e, p,k, p,k, p,k, and the message    *)
(* sent on DISPLAY has leds_count = 2 with rows 0..2 holding the 18 bytes. *)
C8_ScenarioEightNulls ==
    /\ [](SessionDone /\ host.id \in {2, 3} => host.rx = ScenarioReplies /\ ScenarioRows)
    /\ [][(SendDisplay /\ host.mode = "script" /\ host.id \in {2, 3})
            => /\ DISPLAY_CHANNEL' = <<[num_leds |-> 2, leds |-> BufRef]>>
               /\ host.rx = ScenarioReplies
               /\ ScenarioRows']_vars

\* the byte-by-byte session is over and its frame waits in DISPLAY
C8_Witness ==
    /\ SessionDone /\ host.id = 3
    /\ DISPLAY_CHANNEL = <<[num_leds |-> 2, leds |-> BufRef]>>

(* C9: for an Update, `p` is the first reply once the tag is recognised    *)
(* and precedes `k`; `k` is written exactly when tag plus 3*strips*leds    *)
(* bytes are buffered, whatever the packet split; and it is written before *)
(* the task asks for the frame buffer, whatever the LED task is doing.     *)
C9_UpdateReplies ==
    [][\A pkt \in AllPackets :
         LET b == inbuf \o pkt
         IN  (ReadPacket(pkt, 0) /\ InEffect(b) = "Update")
                => /\ command = "None" => (out' # <<>> /\ out'[1] = "p")
                   /\ command = "Update" => "p" \notin Range(out')
                   /\ ("k" \in Range(out')) <=> (Len(b) >= 8 + 3 * cfg.strips * cfg.leds)
                   /\ "k" \in Range(out')
                        => /\ out'[Len(out')] = "k"
                           /\ ppc' = "recv"
                           /\ pleds' = <<>>
                           /\ UNCHANGED <<RETURN_CHANNEL, DISPLAY_CHANNEL, DISPLAY_BUFFER>>
                   /\ "k" \notin Range(out') => ppc' = "read_packet"]_vars

\* `k` was written for a frame whose payload is complete, while the LED task
\* still holds the buffer with the previous frame
C9_Witness ==
    /\ ppc = "recv" /\ out = <<"k">>
    /\ RETURN_CHANNEL = <<>> /\ lpc = "write"
    /\ Len(inbuf) > 8

(* C10: an accepted Update copies payload bytes [3*(s*leds+i), +3) into    *)
(* buffer[s][i] for s < strips, i < leds, leaves every other entry as it   *)
(* was, and sends that buffer with leds_count = leds on DISPLAY.           *)
C10_UpdateCopies ==
    [][/\ RecvBuffer
          => \A s \in 0 .. 7 : \A i \in 0 .. 511 :
                Px(DISPLAY_BUFFER', s, i) =
                    IF s < cfg.strips /\ i < cfg.leds
                    THEN <<inbuf[8 + 3 * (s * cfg.leds + i) + 1],
                           inbuf[8 + 3 * (s * cfg.leds + i) + 2],
                           inbuf[8 + 3 * (s * cfg.leds + i) + 3]>>
                    ELSE Px(DISPLAY_BUFFER, s, i)
       /\ SendDisplay
          => /\ DISPLAY_CHANNEL' = <<[num_leds |-> cfg.leds, leds |-> BufRef]>>
             /\ UNCHANGED DISPLAY_BUFFER]_vars

\* the second frame (2 strips x 1 LED) is copied and LED 1 of both rows
\* still shows the first frame
C10_Witness ==
    /\ ppc = "send" /\ cfg = [strips |-> 2, leds |-> 1]
    /\ Px(DISPLAY_BUFFER, 0, 0) = <<31, 32, 33>>
    /\ Px(DISPLAY_BUFFER, 1, 0) = <<41, 42, 43>>
    /\ Px(DISPLAY_BUFFER, 0, 1) = <<14, 15, 16>>
    /\ Px(DISPLAY_BUFFER, 1, 1) = <<24, 25, 26>>


-----------------------------------------------------------------------------
(* The transposer: C13, C14, C15                                           *)

\* bit k (0 = least significant) of byte x
BitOf(x, k) == (x \div 2 ^ k) % 2

\* the bits of one byte in reverse order
ReverseBits(x) ==
    LET bit(k) == BitOf(x, k) * 2 ^ (7 - k)
    IN  bit(0) + bit(1) + bit(2) + bit(3) + bit(4) + bit(5) + bit(6) + bit(7)

\* the bytes in reverse order, each with its bits reversed
HalfTurn(b) == [n \in 1 .. 8 |-> ReverseBits(b[9 - n])]

\* C13 as stated: applying compress_byte twice to an array b gives b back
C13_Involution == tn = 2 => tb = tsrc

\* C13: applying compress_byte twice to an array b gives b with its bytes in
\* reverse order and the bits of each byte reversed; applying it four times
\* gives b back
C13_HalfTurn ==
    /\ tn = 2 => tb = HalfTurn(tsrc)
    /\ tn = 4 => tb = tsrc

C13_Witness == tn = 2 /\ tsrc = OneBit(0, 7) /\ tb = OneBit(7, 0)

\* C14: bit s (from the least significant end) of output byte k is bit k,
\* counted from the most significant end, of input byte s - also for inputs
\* whose bits shift() carries from one byte into the next
C14_OutputBitIsInputBit ==
    [][Transpose => \A k \in 0 .. 7 : \A s \in 0 .. 7 :
                        BitOf(tb'[k + 1], s) = BitOf(tb[s + 1], 7 - k)]_vars

C14_Witness == tn = 1 /\ tsrc = Carrying /\ tb = <<165, 165, 165, 165, 165, 165, 165, 165>>

\* C15 as stated: the array with byte n = 0x80 >> n is transposed to itself
C15_DiagonalFixed == (tn = 1 /\ tsrc = Diagonal) => tb = Diagonal

\* C15: the array with byte n = 0x80 >> n is transposed to the array with
\* byte n = 0x01 << n
C15_DiagonalMirrored == (tn = 1 /\ tsrc = Diagonal) => tb = <<1, 2, 4, 8, 16, 32, 64, 128>>

C15_Witness == tn = 1 /\ tsrc = Diagonal /\ tb[1] = 1 /\ tb[8] = 128

-----------------------------------------------------------------------------
(* From the payload to the pins: C11, C12                                  *)

\* the t-th byte (from 1) the PIO shifts out of the pushed words: shift
\* direction left, 8 bits at a time, so the most significant byte comes first
StreamByte(words, t) ==
    LET w == words[(t - 1) \div 4 + 1]
        n == (t - 1) % 4
    IN  IF n = 0 THEN w.hi \div 256
        ELSE IF n = 1 THEN w.hi % 256
        ELSE IF n = 2 THEN w.lo \div 256
        ELSE w.lo % 256

\* the bits pin s carries, one per byte moved to the pins
PinBits(words, s) == [t \in 1 .. 4 * Len(words) |-> BitOf(StreamByte(words, t), s)]

\* the bytes of row s of the payload f.payload, per LED in the order G, R, B,
\* as bits, most significant first
WireBits(f, s) ==
    [t \in 1 .. 24 * f.leds |->
        LET i == (t - 1) \div 24
            j == ((t - 1) % 24) \div 8
            k == (t - 1) % 8
            colour == IF j = 0 THEN 1 ELSE IF j = 1 THEN 0 ELSE 2
        IN  BitOf(f.payload[s * f.leds * 3 + i * 3 + colour + 1], 7 - k)]

\* write_data_direct has returned for a frame the scripted host sent
FrameWritten == lpc = "return" /\ host.sent # <<>>

\* C11: once a frame is written out, for every strip s below the configured
\* number of strips, pin s has carried, for each LED in order, the payload
\* bytes of that LED in the order G, R, B, most significant bit first
C11_PinsCarryPayloadGRB ==
    FrameWritten =>
        \A s \in 0 .. Head(host.sent).strips - 1 :
            PinBits(pushed, s) = WireBits(Head(host.sent), s)

C11_Witness ==
    /\ FrameWritten
    /\ Head(host.sent).payload = FrameA
    /\ Len(pushed) = 12
    /\ PinBits(pushed, 1) = WireBits(Head(host.sent), 1)

\* C12: once a frame is written out under n strips, the pins n..7 have
\* carried nothing but 0 bits: no pixel of an earlier frame shows on them
C12_NoLeftoverOnUnusedPins ==
    FrameWritten =>
        \A s \in Head(host.sent).strips .. MAX_STRIPS - 1 :
            \A t \in 1 .. 4 * Len(pushed) : PinBits(pushed, s)[t] = 0

-----------------------------------------------------------------------------
(* The reset gap: C16                                                      *)

\* C16: whenever the LED task is past the gap check of a frame (about to
\* push, or pushing, its words), at least 280 microseconds have passed since
\* last_write; and when the frame arrived sooner, the timer it sleeps on is
\* set to exactly 280 microseconds minus the time passed
C16_ResetGapKept ==
    /\ (lpc = "write" /\ wpc \in {"loop", "push", "flush"}) => elapsed >= RESET_DURATION
    /\ (lpc = "write" /\ wpc = "sleep") => elapsed + timer = RESET_DURATION

C16_Witness ==
    /\ lpc = "write"
    /\ wpc = "push"
    /\ pushed # <<>>
    /\ elapsed = RESET_DURATION

-----------------------------------------------------------------------------
(* Serialisation of the frames: C17                                        *)

\* a frame is between DISPLAY_CHANNEL.send and RETURN_CHANNEL.send
InFlight == Len(DISPLAY_CHANNEL) + Len(frame)

\* C17: at most one frame is in flight, and none while the protocol task
\* holds the buffer; the LED task receives a frame only out of the display
\* channel, after the protocol task has let go of the buffer; and the
\* protocol task acquires (and writes) the buffer only when the LED task is
\* past its RETURN send, having finished reading the frame before
C17_FramesSerialised ==
    /\ [](InFlight <= 1 /\ (pleds # <<>> => InFlight = 0))
    /\ [][(frame = <<>> /\ frame' # <<>>) =>
            (DISPLAY_CHANNEL # <<>> /\ frame' = <<Head(DISPLAY_CHANNEL)>> /\ pleds = <<>>)]_vars
    /\ [][(DISPLAY_BUFFER' # DISPLAY_BUFFER \/ (pleds = <<>> /\ pleds' # <<>>)) =>
            (RETURN_CHANNEL # <<>> /\ InFlight = 0 /\ lpc \in {"drain", "receive"})]_vars

\* the protocol task holds the buffer for a second frame while the LED task
\* is still waiting for the FIFO to drain after the first
C17_Witness == ppc = "send" /\ host.sent # <<>> /\ lpc = "drain" /\ pushed # <<>>

-----------------------------------------------------------------------------
(* Disconnection: C18                                                      *)

\* C18: read_serial is never left with the buffer in the protocol task's
\* hands (the buffer stays with exactly one owner); a frame in flight always
\* comes back to the return channel; and an Update waiting for the buffer
\* always gets it
C18_BufferSurvivesDisconnect ==
    /\ [](ppc = "wait_connection" => (pleds = <<>> /\ Owners = 1))
    /\ (InFlight > 0) ~> (RETURN_CHANNEL # <<>>)
    /\ (ppc = "recv") ~> (ppc = "send")

\* disconnected with a frame in flight
C18_Witness == ppc = "wait_connection" /\ InFlight = 1 /\ RETURN_CHANNEL = <<>>

-----------------------------------------------------------------------------
(* The replies and the handshake: C19, C20                                 *)

\* the session starts with the null bytes of the resynchronisation
StartsWithNulls(id) == \A n \in DOMAIN Head(Script(id)) : Head(Script(id))[n] = 0

\* C19: every reply is one of i, p, k, e, and the first reply of a session
\* that starts with the host's resynchronisation bytes is i
C19_HandshakeAnsweredInit ==
    host.mode = "script" =>
        /\ \A n \in DOMAIN host.rx :
              host.rx[n] \in {DEVICE_INIT_MESSAGE, DEVICE_PARTIAL_MESSAGE,
                              DEVICE_OK_MESSAGE, DEVICE_ERROR_MESSAGE}
        /\ (StartsWithNulls(host.id) /\ host.rx # <<>>) => host.rx[1] = DEVICE_INIT_MESSAGE

\* C20: when the resynchronisation loop has ended, read_serial is suspended
\* at read_packet with no command pending and nothing buffered, and the
\* firmware has read everything the host wrote
C20_ResyncLeavesIdle ==
    (host.mode = "resync" /\ host.done) =>
        /\ ppc = "read_packet"
        /\ command = "None"
        /\ inbuf = <<>>
        /\ host.todo = <<>>

-----------------------------------------------------------------------------
(* The host library: C21                                                   *)

\* the read returned exactly the one byte b
ReadExactly(r, b) == ~r.err /\ r.bytes = <<b>>

\* the error a read other than the expected one ends the call with
ErrorFor(r) ==
    IF r.err THEN "IO" ELSE IF Len(r.bytes) # 1 THEN "NoResponse" ELSE "UnexpectedResponse"

\* the call ends with error e, having written nothing more, with nothing left to send
EndsWith(e) ==
    /\ host'.hpc = "idle"
    /\ host'.result = e
    /\ host'.written = host.written
    /\ host'.plan = <<>>
    /\ host'.acked = host.acked

\* C21: send_command writes the tag first; after its first read it writes
\* the payload only when that read gave exactly the one byte p; after its
\* second read it succeeds only when that read gave exactly the one byte k;
\* a read of another byte ends the call with UnexpectedResponse and a read
\* of no byte with NoResponse, nothing more being written and nothing being
\* left to send
C21_SendCommandStopsOnBadReply ==
    [][host.mode = "lib" =>
        /\ (host.hpc = "run" /\ host'.hpc = "read_p") =>
              host'.written = Append(host.written, TagOf(Head(host.plan)))
        /\ (host.hpc = "read_p" /\ host' # host) =>
              IF ReadExactly(host'.output, DEVICE_PARTIAL_MESSAGE)
              THEN \/ /\ host'.hpc = "read_k"
                      /\ host'.written = Append(host.written, DataOf(Head(host.plan), host.config))
                   \/ EndsWith("IO")
              ELSE EndsWith(ErrorFor(host'.output))
        /\ (host.hpc = "read_k" /\ host' # host) =>
              IF ReadExactly(host'.output, DEVICE_OK_MESSAGE)
              THEN /\ host'.result \in {"Ok", "Running"}
                   /\ host'.acked = host.acked \cup {Head(host.plan)}
                   /\ host'.written = host.written
              ELSE EndsWith(ErrorFor(host'.output))
        /\ (host.hpc = "idle" /\ host' # host) => host'.written = <<>>]_vars

\* a call ended on a wrong byte after the tag alone was written, with
\* commands still to send
C21_Witness ==
    /\ host.mode = "lib"
    /\ host.hpc = "idle"
    /\ host.result = "UnexpectedResponse"
    /\ host.output.bytes = <<"e">>
    /\ host.written = <<SET_STRIPS_MESSAGE>>
    /\ host.calls = 1

-----------------------------------------------------------------------------
(* Finding the device: C22                                                 *)

\* the places in the list of the ports that are Serial WS2812 devices
DevicePorts(ports) == {n \in DOMAIN ports : ports[n].kind = "device"}

\* C22: find gives the first listed port that is a Serial WS2812 device,
\* and none when no listed port is one
C22_FindsFirstDevice ==
    (host.mode = "find" /\ host.called # "no") =>
        IF DevicePorts(host.ports) = {} THEN host.found = <<>>
        ELSE /\ host.found # <<>>
             /\ host.found[1] \in DevicePorts(host.ports)
             /\ \A n \in DevicePorts(host.ports) : host.found[1] <= n

-----------------------------------------------------------------------------
(* Bytes past the end of an Update: C23                                    *)

\* the step that ends an Update: DISPLAY_CHANNEL.send has completed
UpdateEnds == ppc = "send" /\ ppc' = "read_packet"

\* what the buffer holds past the bytes of the Update
SurplusOf(b, c) == SubSeq(b, MESSAGE_TYPE_LEN + BYTES_PER_LED * c.leds * c.strips + 1, Len(b))

\* C23 as stated: the bytes a packet holds past the end of the Update stay
\* in the input buffer when the command completes, as the start of the next tag
C23_SurplusKept == [][UpdateEnds => inbuf' = SurplusOf(inbuf, cfg)]_vars

\* C23: the bytes a packet holds past the end of the Update are dropped with
\* the command: when it completes the input buffer is empty and no command
\* is pending, so the next tag starts with the next packet
C23_SurplusDropped == [][UpdateEnds => (inbuf' = <<>> /\ command' = "None")]_vars

\* the Update has ended with two bytes too many, and the six bytes sent after
\* it are all the buffer holds: no tag has been recognised
C23_Witness ==
    /\ host.mode = "script"
    /\ host.id = 7
    /\ host.sent # <<>>
    /\ Head(host.sent).payload = FrameC \o Surplus
    /\ host.todo = <<>>
    /\ inbuf = RestOfTag
    /\ command = "None"
    /\ host.rx = <<"p", "k", "p", "k", "p", "k">>

-----------------------------------------------------------------------------
(* The words pushed for one frame: C24                                     *)

\* the LEDs transposed so far for the frame being written, and their bytes
TransposedLeds == IF wpc = "push" THEN li + 1 ELSE li
TransposedBytes == 24 * TransposedLeds

\* C24: while a frame is written, the words pushed so far are, in order and
\* with none skipped or repeated, the big-endian compositions of the scratch
\* bytes 4w..4w+3; every such byte was transposed for this frame before its
\* word was pushed; written_bytes never exceeds the bytes transposed, nor
\* byte_idx inside the for loop, nor total_to_write after it; and when
\* write_data_direct returns, exactly 6 * min(n, 512) words were pushed
C24_WordsPushedInOrder ==
    /\ lpc = "write" =>
          /\ written_bytes = 4 * Len(pushed)
          /\ written_bytes <= TransposedBytes
          /\ wpc = "push" => written_bytes <= 24 * li
          /\ wpc = "flush" => written_bytes <= TotalToWrite(Head(frame))
          /\ \A i \in 0 .. TransposedLeds - 1 :
                SubSeq(out_buf, 24 * i + 1, 24 * i + 24) = Transposed(DISPLAY_BUFFER, i)
          /\ \A w \in 0 .. Len(pushed) - 1 :
                /\ pushed[w + 1].hi = out_buf[4 * w + 1] * 256 + out_buf[4 * w + 2]
                /\ pushed[w + 1].lo = out_buf[4 * w + 3] * 256 + out_buf[4 * w + 4]
    /\ lpc = "return" =>
          /\ Len(pushed) = 6 * Min(Head(frame).num_leds, MAX_LEDS_PER_STRIP)
          /\ \A w \in 0 .. Len(pushed) - 1 :
                /\ pushed[w + 1].hi = out_buf[4 * w + 1] * 256 + out_buf[4 * w + 2]
                /\ pushed[w + 1].lo = out_buf[4 * w + 3] * 256 + out_buf[4 * w + 4]

\* the FIFO took three words inside the for loop and was then found full:
\* the other nine are left to the loop after it
C24_Witness ==
    /\ lpc = "write"
    /\ wpc = "flush"
    /\ Head(frame).num_leds = 2
    /\ Len(pushed) = 3
    /\ written_bytes = 12

-----------------------------------------------------------------------------
(* No deadlock in the hand-off: C25                                        *)

\* C25: the buffer is in RETURN_CHANNEL at boot; an Update whose payload is
\* complete always gets the buffer, is always delivered to the LED task and
\* written out to the end, and the buffer always comes back to
\* RETURN_CHANNEL afterwards
C25_HandOffNeverDeadlocks ==
    /\ RETURN_CHANNEL = <<BufRef>>
    /\ (ppc = "recv") ~> (ppc = "send")
    /\ (ppc = "send") ~> (lpc = "write" /\ DISPLAY_CHANNEL = <<>>)
    /\ (lpc = "write") ~> (lpc = "return")
    /\ (lpc = "return") ~> (RETURN_CHANNEL = <<BufRef>>)

\* a second Update waits for the buffer while the LED task is still pushing
\* the frame of the first
C25_Witness ==
    /\ ppc = "recv"
    /\ lpc = "write"
    /\ wpc = "flush"
    /\ pushed # <<>>
    /\ RETURN_CHANNEL = <<>>

-----------------------------------------------------------------------------
(* The room left in the input buffer: C26                                  *)

\* C26: whenever read_packet is called, idx is at most 8 + 12288, so that a
\* packet of 64 bytes fits in buf[idx..], and the task never panics on
\* BufferOverflow
C26_IdxWithinBuffer ==
    /\ ppc = "read_packet" => Len(inbuf) <= MESSAGE_TYPE_LEN + MAX_BUFFER_SIZE
    /\ ppc # "panic"

-----------------------------------------------------------------------------
(* What changes the configuration: C27                                     *)

\* a step of read_serial that answers `k` to a SetStrips or SetLeds command
\* and stores its number, which is within the limits
SetAccepted ==
    /\ ppc = "read_packet"
    /\ ppc' = "read_packet"
    /\ out' # <<>>
    /\ out'[Len(out')] = DEVICE_OK_MESSAGE
    /\ cfg'.strips = cfg.strips \/ cfg'.leds = cfg.leds
    /\ cfg'.strips <= MAX_STRIPS
    /\ cfg'.leds <= MAX_LEDS_PER_STRIP

\* wait_connection returns and read_serial starts with Config { 3, 512 }
Reconnected ==
    /\ ppc = "wait_connection"
    /\ ppc' = "read_packet"
    /\ cfg' = [strips |-> 3, leds |-> 512]

\* C27 as stated: the configuration starts as (3, 512) and no step but an
\* accepted SetStrips or SetLeds changes it, a disconnect followed by a
\* reconnect included
C27_ConfigOnlyBySet ==
    /\ cfg = [strips |-> 3, leds |-> 512]
    /\ [][cfg' # cfg => SetAccepted]_vars

\* C27, amended: the configuration starts as (3, 512) and changes only by
\* an accepted SetStrips or SetLeds, or by a new connection, which sets it
\* back to (3, 512); a disconnect by itself leaves it alone
C27_ConfigBySetOrConnect ==
    /\ cfg = [strips |-> 3, leds |-> 512]
    /\ [][cfg' # cfg => SetAccepted \/ Reconnected]_vars

\* a frame handed over under a changed configuration is still being written
\* while a new connection has put the defaults back
C27_Witness ==
    /\ ppc = "read_packet"
    /\ cfg = [strips |-> 3, leds |-> 512]
    /\ lpc = "write"
    /\ frame # <<>>
    /\ Head(frame).num_leds = 1

-----------------------------------------------------------------------------
(* No send finds its channel full: C28                                     *)

\* C28: when the protocol task is at DISPLAY_CHANNEL.send the channel is
\* empty, when the LED task is at RETURN_CHANNEL.send the channel is empty,
\* neither channel ever holds more than its one slot, and the buffer that
\* the boot-time try_send stored is there, in a channel or with a task
C28_SendsFindRoom ==
    /\ ppc = "send" => DISPLAY_CHANNEL = <<>>
    /\ lpc = "return" => RETURN_CHANNEL = <<>>
    /\ Len(DISPLAY_CHANNEL) <= 1
    /\ Len(RETURN_CHANNEL) <= 1
    /\ Len(RETURN_CHANNEL) + Len(pleds) + Len(DISPLAY_CHANNEL) + Len(frame) = 1

\* the LED task is about to give the buffer back while the protocol task
\* already waits for it with the next Update
C28_Witness ==
    /\ lpc = "return"
    /\ RETURN_CHANNEL = <<>>
    /\ ppc = "recv"

-----------------------------------------------------------------------------
(* When the library writes an update tag: C29                              *)

\* send_command writes the tag of an Update in this step
WritesUpdateTag ==
    /\ host.mode = "lib"
    /\ Len(host'.written) = Len(host.written) + 1
    /\ host'.written[Len(host'.written)] = UPDATE_MESSAGE

\* C29: the library writes an update tag only on an instance whose resync
\* has completed and whose strips and leds commands have both been answered
\* `k`, whatever calls came before and whatever they returned
C29_UpdateOnlyWhenConfigured ==
    [][WritesUpdateTag => (host.resynced /\ {"strips", "leds"} \subseteq host.acked)]_vars

====
